---- MODULE Spec2Model ----
(***************************************************************************)
(* Model of the aggregation-query backend: the SQL compiler and the query  *)
(* executor of query_engine.py and the chart classifier of                 *)
(* visualization_recommender.py.                                           *)
(*                                                                         *)
(* Text is a sequence of lexical atoms (TLA+ strings): "a b" is <<"a",     *)
(* "b">>, white space is dropped, and a brace, a comma, a quote are atoms  *)
(* of their own.  Python's `x in s` and s.replace(x, y) become a search    *)
(* for, and a left-to-right replacement of, a contiguous run of atoms.     *)
(***************************************************************************)
EXTENDS Naturals, Integers, Sequences, FiniteSets, TLC

VARIABLES
    pc,               \* position of the request in process_aggregation_query / of the function under check
    agg_def,          \* the AggregationDefinition of the request
    user_location,    \* the caller location, or NoLocation
    sql,              \* the SQL text returned by generate_sql
    outcome,          \* what process_aggregation_query hands back (or raises)
    engine_calls,     \* con.execute(execution_sql) calls made for this request
    engine_sql,       \* the text handed to the engine by the last call
    log,              \* the log records written by execute_sql_in_duckDB in this request
    returned,         \* per caller location, the `sql` field already handed back for agg_def
    dimension_stats,  \* the classifier's dimension_stats argument
    dataset_length,   \* the classifier's dataset_length argument
    viz,              \* the (available, ideal) pair returned by the classifier
    reordered,        \* the definition returned by reorder_dimensions_by_cardinality
    dataset,          \* the records handed to calculate_dimension_cardinality_stats
    request_pc,       \* per request, its position in process_prompt
    loop_thread       \* the request whose handler holds the event-loop thread, or NoRequest

vars == <<pc, agg_def, user_location, sql, outcome, engine_calls, engine_sql, log,
          returned, dimension_stats, dataset_length, viz,
          reordered, dataset, request_pc, loop_thread>>

(***************************************************************************)
(* Bounds of the model.                                                    *)
(***************************************************************************)
MaxDims == 3
MaxMeasures == 2
MaxSqlDims == 2
MaxRequests == 3

(***************************************************************************)
(* Program constants.                                                      *)
(***************************************************************************)
CARDINALITY_THRESHOLD == 15
DEFAULT_LIMIT == 5000

ADDITIVE_MEASURES == {"num_of_requests", "population"}

TIME_DIMENSIONS == {"created_date", "created_week", "created_month"}

GEO_DIMENSIONS == {"borough", "county", "location", "incident_zip", "neighborhood_name"}

\* data type per physical_name, as _get_dimension_types reads it from the schema;
\* a dimension that is not in the schema has no entry
DimensionTypes ==
    [d \in {"created_date", "borough", "location", "complaint_type"} |->
        CASE d = "created_date" -> "date"
          [] d = "location" -> "geometry"
          [] OTHER -> "string"]

(***************************************************************************)
(* Text helpers.                                                           *)
(***************************************************************************)
\* Python: atom in text
Contains(text, atom) ==
    \E i \in 1..Len(text) : text[i] = atom

\* Python: pat in text, pat a run of atoms
ContainsSeq(text, pat) ==
    \E i \in 1..Len(text) :
        /\ i + Len(pat) - 1 <= Len(text)
        /\ SubSeq(text, i, i + Len(pat) - 1) = pat

\* the start positions of pat in text
Matches(text, pat) ==
    {i \in 1..Len(text) :
        i + Len(pat) - 1 <= Len(text) /\ SubSeq(text, i, i + Len(pat) - 1) = pat}

RECURSIVE Replace(_, _, _)
\* Python: text.replace(pat, rep), left to right, non-overlapping (pat non-empty)
Replace(text, pat, rep) ==
    IF Len(pat) = 0 \/ Matches(text, pat) = {} THEN text
    ELSE LET i == CHOOSE k \in Matches(text, pat) : \A j \in Matches(text, pat) : k <= j
         IN  SubSeq(text, 1, i - 1) \o rep
             \o Replace(SubSeq(text, i + Len(pat), Len(text)), pat, rep)

RECURSIVE Join(_, _)
\* Python: sep.join(parts), parts a sequence of texts
Join(parts, sep) ==
    IF Len(parts) = 0 THEN <<>>
    ELSE IF Len(parts) = 1 THEN parts[1]
    ELSE parts[1] \o sep \o Join(Tail(parts), sep)

\* occurrences of atom in text
Range(s) == {s[i] : i \in 1..Len(s)}

Count(text, atom) == Cardinality({i \in 1..Len(text) : text[i] = atom})

\* the sequences over S of length at most n
RECURSIVE SeqsUpTo(_, _)
SeqsUpTo(S, n) ==
    IF n = 0 THEN {<<>>} ELSE SeqsUpTo(S, n - 1) \cup [1..n -> S]

\* the sequences over S of length at most n without repeated elements
UniqueSeqs(S, n) ==
    {s \in SeqsUpTo(S, n) : \A i, j \in 1..Len(s) : i # j => s[i] # s[j]}

(***************************************************************************)
(* utils.py: dimension classification.                                     *)
(***************************************************************************)
IsTimeDim(d) == d \in TIME_DIMENSIONS

IsGeoDim(d) == d \in GEO_DIMENSIONS

IsNotTimeDim(d) == d \notin TIME_DIMENSIONS

IsNotGeoDim(d) == d \notin GEO_DIMENSIONS

\* a mutant: a geographic dimension is not counted as categorical
classify_dimensions_GeoApart(dimensions) ==
    [time |-> SelectSeq(dimensions, IsTimeDim),
     geo  |-> SelectSeq(dimensions, IsGeoDim),
     cat  |-> SelectSeq(SelectSeq(dimensions, IsNotTimeDim), IsNotGeoDim)]

\* (time_dims, geo_dims, cat_dims)
classify_dimensions(dimensions) ==
    [time |-> SelectSeq(dimensions, IsTimeDim),
     geo  |-> SelectSeq(dimensions, IsGeoDim),
     cat  |-> SelectSeq(dimensions, IsNotTimeDim)]

(***************************************************************************)
(* query_engine.py: SQL generation.                                        *)
(***************************************************************************)
\* Python: word in dim, for a dimension name; no name of the model's
\* dimension universe contains one of the searched words without being it
NameContains(dim, word) == dim = word

\* the dimension names as texts
DimTexts(dims) == [i \in 1..Len(dims) |-> <<dims[i]>>]

\* [f"{m['expression']} AS {m['alias']}" for m in definition.measures]
MeasureTexts(measures) ==
    [i \in 1..Len(measures) |-> measures[i].expression \o <<"AS", measures[i].alias>>]

build_select_clause(definition) ==
    LET dims == definition.dimensions
        dims_clause == Join(DimTexts(dims), <<",">>)
        measures_clause == Join(MeasureTexts(definition.measures), <<",">>)
    IN  IF Len(dims_clause) > 0 /\ Len(measures_clause) > 0
        THEN dims_clause \o <<",">> \o measures_clause
        ELSE IF Len(dims_clause) > 0 THEN dims_clause ELSE measures_clause

\* the metadata expressions of one measure
MeasureMetadata(dims, measure) ==
    LET a == measure.alias
        dim_array_elements == Join(DimTexts(dims), <<",">>) \o <<",", a>>
    IN  <<",", "avg(", a, ") over () as", "metadata_avg_", a,
          ",", "median(", a, ") over () as", "metadata_median_", a,
          ",", "stddev(", a, ") over () as", "metadata_stddev_", a>>
        \o (IF Len(dims) > 0
            THEN <<",", "cast(max_by(json_array(">> \o dim_array_elements
                 \o <<"),", a, ", 3) over () as string) as", "metadata_top_3_", a>>
                 \o <<",", "cast(min_by(json_array(">> \o dim_array_elements
                 \o <<"),", a, ", 3) over () as string) as", "metadata_bottom_3_", a>>
            ELSE <<>>)

RECURSIVE StatsMetadata(_, _)
StatsMetadata(dims, measures) ==
    IF Len(measures) = 0 THEN <<>>
    ELSE MeasureMetadata(dims, measures[1]) \o StatsMetadata(dims, Tail(measures))

build_metadata_clauses(definition) ==
    LET dims == definition.dimensions
        stats_metadata ==
            StatsMetadata(dims, definition.measures)
            \o <<",", "cast(sum(min(1)) over () > 5000 as string) as",
                 "metadata_result_exceeds_limit">>
        date_metadata ==
            <<",", "min(min(created_date)) over () as", "metadata_min_created_date",
              ",", "max(max(created_date)) over () as", "metadata_max_created_date">>
        location_reference ==
            IF \E i \in 1..Len(dims) :
                   \/ NameContains(dims[i], "location")
                   \/ NameContains(dims[i], "incident_zip")
                   \/ NameContains(dims[i], "neighborhood_name")
            THEN <<",", "min(borough) as", "reference_borough">>
                 \o (IF \E i \in 1..Len(dims) : NameContains(dims[i], "location")
                     THEN <<",", "string_agg(distinct nullif(neighborhood_name, 'Unspecified'), ', ') as",
                            "reference_neighborhood">>
                     ELSE <<>>)
            ELSE <<>>
    IN  stats_metadata \o date_metadata \o location_reference

\* definition.topN is an Optional[TopNDefinition]: a model object is truthy
HasTopN(definition) == definition.topN.present

\* a mutant: the first measure is tried before the time dimension
OrderByStandard_MeasureFirst(definition) ==
    LET dims == definition.dimensions
    IN  IF Len(dims) = 1 /\ dims[1] = "time_to_resolve_day_bin"
        THEN <<"ORDER BY", "time_to_resolve_day_bin", "ASC">>
        ELSE IF Len(dims) = 1 /\ dims[1] = "created_weekday_datepart"
        THEN <<"ORDER BY", "MIN(created_weekday_order)", "ASC">>
        ELSE IF Len(dims) = 1 /\ dims[1] = "closed_weekday_datepart"
        THEN <<"ORDER BY", "MIN(closed_weekday_order)", "ASC">>
        ELSE IF Len(definition.measures) > 0
        THEN <<"ORDER BY", definition.measures[1].alias, "DESC">>
        ELSE IF Len(definition.timeDimension) > 0
        THEN <<"ORDER BY", definition.timeDimension[1], "ASC">>
        ELSE <<>>

OrderByStandard(definition) ==
    LET dims == definition.dimensions
    IN  IF Len(dims) = 1
        THEN IF dims[1] = "time_to_resolve_day_bin"
             THEN <<"ORDER BY", "time_to_resolve_day_bin", "ASC">>
             ELSE IF dims[1] = "created_weekday_datepart"
             THEN <<"ORDER BY", "MIN(created_weekday_order)", "ASC">>
             ELSE IF dims[1] = "closed_weekday_datepart"
             THEN <<"ORDER BY", "MIN(closed_weekday_order)", "ASC">>
             ELSE IF dims[1] \in TIME_DIMENSIONS
             THEN <<"ORDER BY", dims[1], "ASC">>
             ELSE IF Len(definition.measures) > 0
             THEN <<"ORDER BY", definition.measures[1].alias, "DESC">>
             ELSE <<>>
        ELSE IF Len(definition.timeDimension) > 0
        THEN <<"ORDER BY", definition.timeDimension[1], "ASC">>
        ELSE IF Len(definition.measures) > 0
        THEN <<"ORDER BY", definition.measures[1].alias, "DESC">>
        ELSE <<>>

OrderByTopN(definition) ==
    <<"ORDER BY">> \o Join(definition.topN.orderByKey, <<",">>)
    \o <<"LIMIT", ToString(definition.topN.topN)>>

\* a mutant: the standard ordering rules are tried before topN
build_order_clause_StandardFirst(definition) ==
    IF Len(OrderByStandard(definition)) > 0 THEN OrderByStandard(definition)
    ELSE IF HasTopN(definition) THEN OrderByTopN(definition)
    ELSE <<>>

\* lines 129-163
build_order_clause(definition) ==
    IF HasTopN(definition) THEN OrderByTopN(definition) ELSE OrderByStandard(definition)

QualityFilter(dim) ==
    IF dim \notin DOMAIN DimensionTypes THEN <<>>
    ELSE IF DimensionTypes[dim] = "string"
         THEN <<dim, "!=", "'Unspecified'">>
         ELSE <<dim, "IS NOT NULL">>

NonEmpty(t) == Len(t) > 0

\* the list quality_filters of generate_sql
QualityFilters(dims) ==
    SelectSeq([i \in 1..Len(dims) |-> QualityFilter(dims[i])], NonEmpty)

\* a mutant: the positions are counted from zero
IndexText_ZeroBased(i) == <<ToString(i - 1)>>

IndexText(i) == <<ToString(i)>>

\* "LIMIT" not in sql
NeedsDefaultLimit(text) == ~Contains(text, "LIMIT")

DefaultLimitClause == <<"LIMIT", ToString(DEFAULT_LIMIT)>>

generate_sql(definition, table_name) ==
    LET dims == definition.dimensions
        full_select == build_select_clause(definition) \o build_metadata_clauses(definition)
        sql0 == <<"SELECT">> \o full_select \o <<"FROM", table_name>>
        quality_filters == QualityFilters(dims)
        where_clause_exists == Len(definition.preAggregationFilters) > 0
        sql1 == IF where_clause_exists
                THEN sql0 \o <<"WHERE">> \o definition.preAggregationFilters
                ELSE sql0
        quality_condition == Join(quality_filters, <<"AND">>)
        sql2 == IF Len(quality_filters) > 0
                THEN IF where_clause_exists
                     THEN sql1 \o <<"AND", "(">> \o quality_condition \o <<")">>
                     ELSE sql1 \o <<"WHERE">> \o quality_condition
                ELSE sql1
        sql3 == IF Len(dims) > 0
                THEN sql2 \o <<"GROUP BY">>
                     \o Join([i \in 1..Len(dims) |-> IndexText(i)], <<",">>)
                ELSE sql2
        sql4 == IF Len(definition.postAggregationFilters) > 0
                THEN sql3 \o <<"HAVING">> \o definition.postAggregationFilters
                ELSE sql3
        order_clause == build_order_clause(definition)
        sql5 == IF Len(order_clause) > 0 THEN sql4 \o order_clause ELSE sql4
        sql6 == IF NeedsDefaultLimit(sql5) THEN sql5 \o DefaultLimitClause ELSE sql5
    IN  IF sql6[Len(sql6)] # ";" THEN sql6 \o <<";">> ELSE sql6

(***************************************************************************)
(* query_engine.py: SQL execution.                                         *)
(***************************************************************************)
LatDouble == <<"{", "{", "user_latitude", "}", "}">>
LngDouble == <<"{", "{", "user_longitude", "}", "}">>
LatSingle == <<"{", "user_latitude", "}">>
LngSingle == <<"{", "user_longitude", "}">>

MASK == "[MASKED_COORDINATE]"

\* bool(user_location): None and {} are falsy
LocationEnabled(loc) == loc.given

\* the guard of the substitution block of execute_sql_in_duckDB
LocationUsed(text, loc) ==
    LocationEnabled(loc) /\ (ContainsSeq(text, LatDouble) \/ ContainsSeq(text, LatSingle))

\* execution_sql after the four replacements, in the code's order
SubstitutePlaceholders(text, loc) ==
    LET lat == <<loc.latitude>>
        lng == <<loc.longitude>>
    IN  Replace(Replace(Replace(Replace(text, LatDouble, lat), LngDouble, lng),
                        LatSingle, lat), LngSingle, lng)

ExecutionSql(text, loc) ==
    IF LocationUsed(text, loc) THEN SubstitutePlaceholders(text, loc) ELSE text

\* sanitized_sql of the except block
SanitizedSql(execution_sql, loc, location_used) ==
    IF location_used /\ LocationEnabled(loc)
    THEN Replace(Replace(execution_sql, <<loc.latitude>>, <<MASK>>),
                 <<loc.longitude>>, <<MASK>>)
    ELSE execution_sql

\* str(e) for an exception raised inside the try block: the engine's message
\* either says nothing of the statement or quotes the statement it was given
EngineErrorMessages(execution_sql) ==
    { <<"IO Error:", "could not open database file">>,
      <<"Parser Error:", "syntax error", "LINE 1:">> \o execution_sql }

\* the two logger.error records of the except block
ErrorLogRecords(message, execution_sql, loc, location_used) ==
    << <<"Database query failed:">> \o message,
       <<"SQL query with error:">> \o SanitizedSql(execution_sql, loc, location_used) >>

\* a column name as the words that its underscores separate
NameWords ==
    [complaint_type |-> <<"complaint", "type">>,
     location |-> <<"location">>,
     borough |-> <<"borough">>,
     created_date |-> <<"created", "date">>,
     created_weekday_datepart |-> <<"created", "weekday", "datepart">>,
     time_to_resolve_day_bin |-> <<"time", "to", "resolve", "day", "bin">>,
     num_of_requests |-> <<"num", "of", "requests">>,
     avg_days |-> <<"avg", "days">>,
     user_latitude |-> <<"user", "latitude">>]

\* the names of the metadata columns of one measure
MeasureMetadataColumns(dims, measure) ==
    LET a == NameWords[measure.alias]
    IN  << <<"metadata", "avg">> \o a,
           <<"metadata", "median">> \o a,
           <<"metadata", "stddev">> \o a >>
        \o (IF Len(dims) > 0
            THEN << <<"metadata", "top", "3">> \o a, <<"metadata", "bottom", "3">> \o a >>
            ELSE <<>>)

RECURSIVE StatsMetadataColumns(_, _)
StatsMetadataColumns(dims, measures) ==
    IF Len(measures) = 0 THEN <<>>
    ELSE MeasureMetadataColumns(dims, measures[1])
         \o StatsMetadataColumns(dims, Tail(measures))

DateRangeColumns ==
    << <<"metadata", "min", "created", "date">>, <<"metadata", "max", "created", "date">> >>

\* df.columns: the names of the SELECT list of generate_sql, in its order
SelectColumns(definition) ==
    LET dims == definition.dimensions
        measures == definition.measures
    IN  [i \in 1..Len(dims) |-> NameWords[dims[i]]]
        \o [i \in 1..Len(measures) |-> NameWords[measures[i].alias]]
        \o StatsMetadataColumns(dims, measures)
        \o << <<"metadata", "result", "exceeds", "limit">> >>
        \o DateRangeColumns
        \o (IF \E i \in 1..Len(dims) :
                   \/ NameContains(dims[i], "location")
                   \/ NameContains(dims[i], "incident_zip")
                   \/ NameContains(dims[i], "neighborhood_name")
            THEN << <<"reference", "borough">> >>
                 \o (IF \E i \in 1..Len(dims) : NameContains(dims[i], "location")
                     THEN << <<"reference", "neighborhood">> >>
                     ELSE <<>>)
            ELSE <<>>)

\* col.startswith('metadata_')
IsMetadataColumn(col) == Len(col) > 1 /\ col[1] = "metadata"

IsDataColumn(col) == ~IsMetadataColumn(col)

\* col.replace('metadata_', '')
RECURSIVE StripMetadata(_)
StripMetadata(col) ==
    IF Len(col) <= 1 THEN col
    ELSE IF Head(col) = "metadata" THEN StripMetadata(Tail(col))
    ELSE <<Head(col)>> \o StripMetadata(Tail(col))

\* parts = col.replace('metadata_', '').split('_', 1)
SplitStatistic(col) ==
    LET parts == StripMetadata(col)
    IN  [stat_name |-> SubSeq(parts, 1, 1), measure_name |-> Tail(parts)]

\* the (measure_name, stat_name) entries of metadata['statistics']
extract_metadata_from_results(columns) ==
    { SplitStatistic(columns[i]) :
        i \in { k \in 1..Len(columns) :
                  /\ IsMetadataColumn(columns[k])
                  /\ columns[k] \notin Range(DateRangeColumns)
                  /\ Len(StripMetadata(columns[k])) >= 2 } }

\* a mutant: every column is handed back
ReturnedColumns_All(columns, row_count) == columns

\* the columns of the records handed back: the metadata columns are dropped
\* when there is a row
ReturnedColumns(columns, row_count) ==
    IF row_count > 0 THEN SelectSeq(columns, IsDataColumn) ELSE columns

\* len(df)
RowCounts == {0, 1}

NoDataset == [row_count |-> 0, columns |-> <<>>]

\* results and metadata as execute_sql_in_duckDB returns them
Dataset(definition, row_count) ==
    [row_count |-> row_count,
     columns |-> ReturnedColumns(SelectColumns(definition), row_count)]

Statistics(definition, row_count) ==
    IF row_count > 0 THEN extract_metadata_from_results(SelectColumns(definition)) ELSE {}

\* the logger.info records written before the engine is called
StartLogRecords(text, loc) ==
    << <<"Executing SQL query in DuckDB">> >>
    \o (IF LocationUsed(text, loc)
        THEN << <<"Replacing location placeholders for execution only">> >>
        ELSE <<>>)

\* the logger.info record of a successful execution
SuccessLogRecords(text, loc) ==
    IF LocationUsed(text, loc)
    THEN << <<"Location-based query executed successfully">> >>
    ELSE << <<"Query executed successfully">> >>

(***************************************************************************)
(* query_engine.py: process_aggregation_query.                             *)
(***************************************************************************)
\* a mutant: the check looks for the latitude placeholder only
LocationRequired_LatitudeOnly(text, loc) ==
    Contains(text, "user_latitude") /\ ~LocationEnabled(loc)

\* the location check made on the compiled SQL
LocationRequired(text, loc) ==
    (Contains(text, "user_latitude") \/ Contains(text, "user_longitude"))
    /\ ~LocationEnabled(loc)

\* a mutant: the executed text is handed back
ResultSql_Executed(text, execution_sql) == execution_sql

\* the `sql` field of the returned dictionary
ResultSql(text, execution_sql) == text

NoSql == <<>>

NoOutcome == [kind |-> "none", sql |-> NoSql, dataset |-> NoDataset, statistics |-> {}]

\* agg_def.copy(update={timeDimension, geoDimension, categoricalDimension})
WithClassification(definition, dims) ==
    LET c == classify_dimensions(dims)
    IN  [definition EXCEPT !.dimensions = dims,
                           !.timeDimension = c.time,
                           !.geoDimension = c.geo,
                           !.categoricalDimension = c.cat]

(***************************************************************************)
(* query_engine.py: dimension analysis.                                    *)
(***************************************************************************)
\* the columns of the DataFrame built from the rows: every row of a result
\* set has the same columns, and no rows give no columns
ColumnsOf(rows) == IF rows = {} THEN {} ELSE DOMAIN (CHOOSE r \in rows : TRUE)

\* df[dim].n_unique()
n_unique(rows, dim) == Cardinality({r[dim] : r \in rows})

\* other_dims = [d for d in dimensions if d != dim], line 466
OtherDims(dimensions, dim) == {dimensions[i] : i \in 1..Len(dimensions)} \ {dim}

\* the groups of df.group_by(other_dims): one per combination of values of
\* the other dimensions that occurs in the rows
GroupKeys(rows, other_dims) == {[c \in other_dims |-> r[c]] : r \in rows}

GroupRows(rows, key) == {r \in rows : \A c \in DOMAIN key : r[c] = key[c]}

\* unique_counts, lines 468-476: the distinct values of dim in each group
UniqueCounts(rows, dim, other_dims) ==
    [key \in GroupKeys(rows, other_dims) |-> n_unique(GroupRows(rows, key), dim)]

\* the sum of f[k] over the keys in S
RECURSIVE SumOver(_, _)
SumOver(f, S) ==
    IF S = {} THEN 0
    ELSE LET k == CHOOSE x \in S : TRUE IN f[k] + SumOver(f, S \ {k})

Squares(f) == [k \in DOMAIN f |-> f[k] * f[k]]

\* np.std(unique_counts) is zero exactly when this integer is: for n counts
\* x it is n * sum(x^2) - sum(x)^2, the squared deviation times n^2
Spread(unique_counts) ==
    LET n == Cardinality(DOMAIN unique_counts)
        s == SumOver(unique_counts, DOMAIN unique_counts)
    IN  n * SumOver(Squares(unique_counts), DOMAIN unique_counts) - s * s

\* lines 432-486; std_per_group holds Spread, and the mean and the median
\* are left out
calculate_single_dimension_stats(rows, dim, dimensions) ==
    LET total_unique == n_unique(rows, dim)
        unique_counts == UniqueCounts(rows, dim, OtherDims(dimensions, dim))
        counts == {unique_counts[k] : k \in DOMAIN unique_counts}
    IN  IF Len(dimensions) = 1
        THEN [total_unique |-> total_unique,
              min_per_group |-> total_unique,
              max_per_group |-> total_unique,
              std_per_group |-> 0,
              group_count |-> 0]
        ELSE [total_unique |-> total_unique,
              min_per_group |-> CHOOSE m \in counts : \A x \in counts : m <= x,
              max_per_group |-> CHOOSE m \in counts : \A x \in counts : m >= x,
              std_per_group |-> Spread(unique_counts),
              group_count |-> Cardinality(DOMAIN unique_counts)]

\* group_by(other_dims) on a column the DataFrame does not have raises
\* (lines 468-475), for a dimension that passed the test of line 408
GroupByRaises(rows, dimensions) ==
    /\ rows # {}
    /\ Len(dimensions) > 1
    /\ \E i \in 1..Len(dimensions) :
          /\ dimensions[i] \in ColumnsOf(rows)
          /\ ~(OtherDims(dimensions, dimensions[i]) \subseteq ColumnsOf(rows))

\* lines 389-414, for a call that returns
calculate_dimension_cardinality_stats(rows, dimensions) ==
    IF rows = {} \/ Len(dimensions) = 0
    THEN [d \in {} |-> 0]
    ELSE [d \in {dimensions[i] : i \in 1..Len(dimensions)} \cap ColumnsOf(rows) |->
              calculate_single_dimension_stats(rows, d, dimensions)]

\* dimension_stats.get(dim, {}).get("total_unique", 0)
TotalUnique(stats, dim) ==
    IF dim \in DOMAIN stats THEN stats[dim].total_unique ELSE 0

\* a mutant: sorted(dims, key) without reverse
SortedByCardinality_Ascending(dims, stats) ==
    LET n == Len(dims)
        Rank(i) == 1 + Cardinality({j \in 1..n :
                        \/ TotalUnique(stats, dims[j]) < TotalUnique(stats, dims[i])
                        \/ /\ TotalUnique(stats, dims[j]) = TotalUnique(stats, dims[i])
                           /\ j < i})
    IN  [k \in 1..n |-> dims[CHOOSE i \in 1..n : Rank(i) = k]]

\* a mutant: list(reversed(sorted(dims, key))), which turns equal keys around
SortedByCardinality_Reversed(dims, stats) ==
    LET n == Len(dims)
        Rank(i) == 1 + Cardinality({j \in 1..n :
                        \/ TotalUnique(stats, dims[j]) > TotalUnique(stats, dims[i])
                        \/ /\ TotalUnique(stats, dims[j]) = TotalUnique(stats, dims[i])
                           /\ j > i})
    IN  [k \in 1..n |-> dims[CHOOSE i \in 1..n : Rank(i) = k]]

\* sorted(dims, key=total_unique, reverse=True): a stable sort, so the
\* element at index i comes after every element of greater key and after the
\* elements of equal key that precede it
SortedByCardinality(dims, stats) ==
    LET n == Len(dims)
        Rank(i) == 1 + Cardinality({j \in 1..n :
                        \/ TotalUnique(stats, dims[j]) > TotalUnique(stats, dims[i])
                        \/ /\ TotalUnique(stats, dims[j]) = TotalUnique(stats, dims[i])
                           /\ j < i})
    IN  [k \in 1..n |-> dims[CHOOSE i \in 1..n : Rank(i) = k]]

\* lines 488-517
reorder_dimensions_by_cardinality(definition, stats) ==
    IF Len(definition.dimensions) <= 1 \/ DOMAIN stats = {}
    THEN definition
    ELSE WithClassification(definition, SortedByCardinality(definition.dimensions, stats))

(***************************************************************************)
(* visualization_recommender.py.                                           *)
(***************************************************************************)
is_measure_additive(measure_alias) == measure_alias \in ADDITIVE_MEASURES

\* dimension_stats maps a dimension name to its cardinality; a dict is truthy
\* when it has a key
StatsGiven(stats) == DOMAIN stats # {}

\* a mutant: the cardinalities are compared the wrong way round
all_dimensions_exceed_cardinality_Below(dimensions, stats, threshold) ==
    LET non_time_dims == SelectSeq(dimensions, IsNotTimeDim)
    IN  IF Len(dimensions) = 0 \/ ~StatsGiven(stats) THEN FALSE
        ELSE IF Len(non_time_dims) = 0 THEN FALSE
        ELSE \A i \in 1..Len(non_time_dims) :
                 non_time_dims[i] \in DOMAIN stats
                     => stats[non_time_dims[i]] < threshold

all_dimensions_exceed_cardinality(dimensions, stats, threshold) ==
    LET non_time_dims == SelectSeq(dimensions, IsNotTimeDim)
    IN  IF Len(dimensions) = 0 \/ ~StatsGiven(stats) THEN FALSE
        ELSE IF Len(non_time_dims) = 0 THEN FALSE
        ELSE \A i \in 1..Len(non_time_dims) :
                 non_time_dims[i] \in DOMAIN stats
                     => stats[non_time_dims[i]] > threshold

\* a mutant: a top-N query counts as any other
is_topn_query_Never(definition) == FALSE

is_topn_query(definition) == definition.topN.present

\* a mutant: list.pop() in place of list.remove(x)
RemoveFirst_Pop(list, x) == SubSeq(list, 1, Len(list) - 1)

\* list.remove(x): drops the first occurrence
RemoveFirst(list, x) ==
    LET i == CHOOSE k \in 1..Len(list) : list[k] = x /\ \A j \in 1..(k - 1) : list[j] # x
    IN  SubSeq(list, 1, i - 1) \o SubSeq(list, i + 1, Len(list))

TableOnly == [available |-> <<"table">>, ideal |-> "table"]

TextOnly == [available |-> <<"text">>, ideal |-> "text"]

\* a mutant: the single-row test looks for an empty result
SingleRowShortCircuit_Empty(length) == length = 0

\* line 107: the single-row edge case, the first return
SingleRowShortCircuit(length) == length = 1

\* a mutant: the response type is compared with another literal
TextShortCircuit_OtherLiteral(definition) == definition.response_type = "textResponse"

\* line 143: the text response type, the second return
TextShortCircuit(definition) == definition.response_type = "text"

AreaGeoNames == {"borough", "county", "neighborhood_name", "incident_zip"}

\* a mutant: the point branch keeps "table"
GeoChart_KeepTable(r, geo_name) ==
    IF geo_name = "location"
    THEN [available |-> Append(r.available, "heatmap"), ideal |-> "heatmap"]
    ELSE IF geo_name \in AreaGeoNames
    THEN [available |-> Append(r.available, "choropleth_map"),
          ideal |-> "choropleth_map"]
    ELSE r

\* a mutant: the areal branch drops "table" as the point branch does
GeoChart_AlwaysRemoveTable(r, geo_name) ==
    IF geo_name = "location"
    THEN [available |-> RemoveFirst(Append(r.available, "heatmap"), "table"),
          ideal |-> "heatmap"]
    ELSE IF geo_name \in AreaGeoNames
    THEN [available |-> RemoveFirst(Append(r.available, "choropleth_map"), "table"),
          ideal |-> "choropleth_map"]
    ELSE r

\* lines 199-211: the chart of a single geographic dimension
GeoChart(r, geo_name) ==
    IF geo_name = "location"
    THEN [available |-> RemoveFirst(Append(r.available, "heatmap"), "table"),
          ideal |-> "heatmap"]
    ELSE IF geo_name \in AreaGeoNames
    THEN [available |-> Append(r.available, "choropleth_map"),
          ideal |-> "choropleth_map"]
    ELSE r

\* the selection logic after the early returns (lines 162-214)
SelectCharts(definition, stats) ==
    LET dimensions == definition.dimensions
        measures == definition.measures
        c == classify_dimensions(dimensions)
        dim_count == Len(dimensions)
        time_count == Len(c.time)
        geo_count == Len(c.geo)
        cat_count == Len(c.cat)
        measure_count == Len(measures)
        additive_measure_count ==
            Cardinality({i \in 1..measure_count : is_measure_additive(measures[i].alias)})
        all_additive_measures == additive_measure_count = measure_count
        is_topn == is_topn_query(definition)
        high_cardinality ==
            StatsGiven(stats)
            /\ all_dimensions_exceed_cardinality(dimensions, stats, CARDINALITY_THRESHOLD)
        is_not_location == IF dim_count > 0 THEN dimensions[1] # "location" ELSE TRUE
        r0 == TableOnly
        \* single categorical dimension with one measure
        r1 == IF cat_count = 1 /\ measure_count = 1 /\ time_count = 0 /\ is_not_location
              THEN [available |-> Append(r0.available, "single_bar_chart"),
                    ideal |-> "single_bar_chart"]
              ELSE r0
        \* time series
        r2 == IF time_count = 1 /\ measure_count = 1 /\ ~high_cardinality
              THEN [available |->
                        r1.available \o <<"line_chart">>
                        \o (IF cat_count = 1 /\ additive_measure_count = measure_count
                            THEN <<"stacked_area_chart", "stacked_area_chart_100">>
                            ELSE <<>>),
                    ideal |-> "line_chart"]
              ELSE r1
        \* nested bar chart
        r3 == IF /\ 1 <= dim_count /\ dim_count <= 2
                 /\ 1 <= measure_count /\ measure_count <= 2
                 /\ (cat_count > 1 \/ measure_count > 1)
              THEN [available |-> Append(r2.available, "nested_bar_chart"),
                    ideal |-> "nested_bar_chart"]
              ELSE r2
        \* grouped and stacked bar charts
        r4 == IF cat_count = 2 /\ measure_count = 1 /\ ~high_cardinality
              THEN IF additive_measure_count = measure_count
                   THEN [available |-> r3.available \o <<"grouped_bar_chart",
                                           "stacked_bar_chart", "stacked_bar_chart_100">>,
                         ideal |-> "stacked_bar_chart"]
                   ELSE [available |-> Append(r3.available, "grouped_bar_chart"),
                         ideal |-> "grouped_bar_chart"]
              ELSE r3
        \* treemap
        r5 == IF /\ 1 <= dim_count /\ dim_count <= 2
                 /\ measure_count = 1 /\ time_count = 0
                 /\ all_additive_measures /\ is_not_location /\ ~is_topn
              THEN [r4 EXCEPT !.available = Append(r4.available, "treemap")]
              ELSE r4
        \* geospatial charts
        r6 == IF geo_count = 1 /\ Len(dimensions) = 1 /\ measure_count = 1
              THEN GeoChart(r5, c.geo[1])
              ELSE r5
    IN  r6

\* a mutant: the dimension ceiling is off by one
TooComplex_OffByOne(definition) ==
    Len(definition.dimensions) > 3 \/ Len(definition.measures) = 0

\* line 159: too many dimensions or no measures
TooComplex(definition) ==
    Len(definition.dimensions) > 2 \/ Len(definition.measures) = 0

get_viz_recommendations(definition, stats, length) ==
    IF SingleRowShortCircuit(length) THEN TableOnly
    ELSE IF TextShortCircuit(definition) THEN TextOnly
    ELSE IF Len(definition.dimensions) = 0 /\ Len(definition.measures) = 0 THEN TableOnly
    ELSE IF TooComplex(definition) THEN TableOnly
    ELSE SelectCharts(definition, stats)

(***************************************************************************)
(* main.py: the revision of the classifier with the high-cardinality       *)
(* demotion.                                                               *)
(***************************************************************************)
\* line 57 of main.py: only the request count is additive in this revision
MAIN_ADDITIVE_MEASURES == {"num_of_requests"}

\* lines 132-142 of main.py
main_is_measure_additive(measure_alias) == measure_alias \in MAIN_ADDITIVE_MEASURES

\* lines 144-165 of main.py: the statistics map a dimension to a record, and
\* a dimension without an entry is skipped
main_all_dimensions_exceed_cardinality(dimensions, stats, threshold) ==
    LET non_time == SelectSeq(dimensions, IsNotTimeDim)
    IN  /\ Len(dimensions) > 0
        /\ DOMAIN stats # {}
        /\ Len(non_time) > 0
        /\ \A i \in 1..Len(non_time) :
              non_time[i] \in DOMAIN stats => stats[non_time[i]].total_unique > threshold

\* list(dict.fromkeys(available)): the first occurrence of each name, in order
Deduplicated(list) ==
    LET firsts == {i \in 1..Len(list) : \A j \in 1..(i - 1) : list[j] # list[i]}
        Nth(k) == CHOOSE i \in firsts : Cardinality({j \in firsts : j < i}) = k - 1
    IN  [k \in 1..Cardinality(firsts) |-> list[Nth(k)]]

\* the charts the demotion of lines 260-268 turns into the table
RestrictedCharts(cat_count) ==
    {"line_chart", "stacked_area_chart", "stacked_area_chart_100",
     "grouped_bar_chart", "stacked_bar_chart", "stacked_bar_chart_100"}
    \cup (IF cat_count = 2 THEN {"treemap"} ELSE {})

\* lines 167-273 of main.py
get_chart_options(definition, stats) ==
    LET dimensions == definition.dimensions
        measures == definition.measures
        c == classify_dimensions(dimensions)
        dim_count == Len(dimensions)
        time_count == Len(c.time)
        geo_count == Len(c.geo)
        cat_count == Len(c.cat)
        measure_count == Len(measures)
        additive_measure_count ==
            Cardinality({i \in 1..measure_count : main_is_measure_additive(measures[i].alias)})
        all_additive == additive_measure_count = measure_count
        high_cardinality ==
            /\ DOMAIN stats # {}
            /\ main_all_dimensions_exceed_cardinality(dimensions, stats, CARDINALITY_THRESHOLD)
        single_geo == geo_count = 1 /\ dim_count = 1 /\ measure_count = 1 /\ all_additive
        is_point == NameContains(c.geo[1], "location")
        is_area == c.geo[1] \in {"borough", "county", "neighborhood_name"}
        a1 == <<"table">>
        a2 == IF dim_count = 1 /\ measure_count = 1 /\ time_count = 0
              THEN Append(a1, "single_bar_chart") ELSE a1
        a3 == IF time_count = 1 /\ cat_count <= 1 /\ measure_count = 1 /\ ~high_cardinality
              THEN Append(a2, "line_chart") ELSE a2
        a4 == IF /\ time_count = 1 /\ cat_count = 1 /\ measure_count = 1
                 /\ all_additive /\ ~high_cardinality
              THEN a3 \o <<"stacked_area_chart", "stacked_area_chart_100">> ELSE a3
        a5 == IF /\ 1 <= cat_count /\ cat_count <= 2
                 /\ 1 <= measure_count /\ measure_count <= 2
                 /\ (cat_count > 1 \/ measure_count > 1)
              THEN Append(a4, "nested_bar_chart") ELSE a4
        a6 == IF cat_count = 2 /\ measure_count = 1 /\ ~high_cardinality
              THEN Append(a5, "grouped_bar_chart") ELSE a5
        a7 == IF cat_count = 2 /\ measure_count = 1 /\ all_additive /\ ~high_cardinality
              THEN a6 \o <<"stacked_bar_chart", "stacked_bar_chart_100">> ELSE a6
        a8 == IF /\ 1 <= cat_count /\ cat_count <= 2 /\ measure_count = 1
                 /\ time_count = 0 /\ all_additive
                 /\ (cat_count < 2 \/ ~high_cardinality)
              THEN Append(a7, "treemap") ELSE a7
        a9 == IF single_geo /\ is_point THEN Append(a8, "heat_map") ELSE a8
        a10 == IF single_geo /\ is_area THEN Append(a9, "choropleth_map") ELSE a9
        chosen ==
            IF single_geo
            THEN IF is_point THEN "heat_map"
                 ELSE IF is_area THEN "choropleth_map" ELSE "table"
            ELSE IF time_count = 1 /\ cat_count <= 1 /\ measure_count = 1
            THEN IF cat_count = 1 /\ all_additive THEN "stacked_area_chart" ELSE "line_chart"
            ELSE IF dim_count = 1 /\ measure_count = 1 /\ time_count = 0
            THEN "single_bar_chart"
            ELSE IF /\ 1 <= cat_count /\ cat_count <= 2
                    /\ 1 <= measure_count /\ measure_count <= 2
                    /\ cat_count + measure_count <= 4
            THEN "nested_bar_chart"
            ELSE IF cat_count = 2 /\ measure_count = 1 THEN "grouped_bar_chart"
            ELSE "table"
        ideal == IF high_cardinality /\ chosen \in RestrictedCharts(cat_count)
                 THEN "table" ELSE chosen
    IN  IF definition.response_type = "text" THEN TextOnly
        ELSE IF dim_count = 0 /\ measure_count = 0 THEN TableOnly
        ELSE [available |-> Deduplicated(a10), ideal |-> ideal]

(***************************************************************************)
(* The inputs the specifications draw from.                                *)
(***************************************************************************)
NoTopN == [present |-> FALSE, orderByKey |-> <<>>, topN |-> 0]

TopNs ==
    { [present |-> TRUE, orderByKey |-> << <<"num_of_requests", "DESC">> >>, topN |-> 10],
      [present |-> TRUE,
       orderByKey |-> << <<"avg_days", "DESC">>, <<"borough", "ASC">> >>, topN |-> 3] }

CountMeasure == [expression |-> <<"count(1)">>, alias |-> "num_of_requests"]

AvgMeasure == [expression |-> <<"avg(time_to_resolve_day)">>, alias |-> "avg_days"]

\* a measure whose alias is the word the location check looks for
LatitudeMeasure == [expression |-> <<"avg(latitude)">>, alias |-> "user_latitude"]

PreFilters ==
    { <<>>,
      <<"borough", "=", "'BRONX'">>,
      <<"borough", "=", "'BRONX'", "OR", "borough", "=", "'QUEENS'">>,
      <<"descriptor", "=", "'", "SPEED", "LIMIT", "'">>,
      <<"st_distance(location, st_point(">> \o LngSingle \o <<",">> \o LatSingle
          \o <<"))", "<", "500">>,
      <<"latitude", "<">> \o LatDouble,
      <<"longitude", ">">> \o LngSingle }

PostFilters ==
    { <<>>,
      <<"num_of_requests", ">", "100">>,
      <<"num_of_requests", ">">> \o LatSingle }

NoLocation == [given |-> FALSE, latitude |-> "None", longitude |-> "None"]

Locations ==
    { NoLocation,
      [given |-> TRUE, latitude |-> "40.7", longitude |-> "-74.0"],
      [given |-> TRUE, latitude |-> "40.8", longitude |-> "-73.9"] }

Definition(dims, measures, pre, post, topN, rtype) ==
    [dimensions |-> dims, measures |-> measures,
     preAggregationFilters |-> pre, postAggregationFilters |-> post,
     timeDimension |-> <<>>, geoDimension |-> <<>>, categoricalDimension |-> <<>>,
     response_type |-> rtype, topN |-> topN]

\* the definitions the compiler is checked on
SqlDims ==
    {"created_date", "created_weekday_datepart", "time_to_resolve_day_bin",
     "complaint_type", "location"}

SqlDefinitions ==
    { Definition(d, m, pre, post, t, "data") :
        d \in UniqueSeqs(SqlDims, MaxSqlDims),
        m \in SeqsUpTo({CountMeasure, AvgMeasure}, MaxMeasures),
        pre \in PreFilters, post \in PostFilters, t \in {NoTopN} \cup TopNs }

\* the definitions the request pipeline is checked on
QueryDefinitions ==
    { Definition(d, m, pre, post, t, "data") :
        d \in UniqueSeqs({"complaint_type", "location"}, MaxSqlDims),
        m \in SeqsUpTo({CountMeasure}, MaxMeasures),
        pre \in PreFilters, post \in PostFilters, t \in {NoTopN} \cup TopNs }

\* the definitions the location check is checked on
LocationDefinitions ==
    { Definition(d, m, pre, <<>>, NoTopN, "data") :
        d \in {<<>>, <<"complaint_type">>},
        m \in SeqsUpTo({CountMeasure, LatitudeMeasure}, MaxMeasures),
        pre \in {<<>>, <<"borough", "=", "'BRONX'">>, <<"latitude", "<">> \o LatDouble} }

\* the inputs the classifier is checked on
VizDims == {"created_date", "complaint_type", "borough", "location"}

VizDefinitions ==
    { Definition(d, m, <<>>, <<>>, t, r) :
        d \in UniqueSeqs(VizDims, MaxDims),
        m \in SeqsUpTo({CountMeasure, AvgMeasure}, MaxMeasures),
        t \in {NoTopN, [present |-> TRUE,
                        orderByKey |-> << <<"num_of_requests", "DESC">> >>, topN |-> 10]},
        r \in {"data", "text"} }

\* a cardinality per dimension of the definition (below, at or above the
\* threshold), some missing, and possibly a key that is no dimension of the
\* definition
StatsFor(dims) ==
    UNION { [D -> {CARDINALITY_THRESHOLD - 1, CARDINALITY_THRESHOLD,
                   CARDINALITY_THRESHOLD + 1}] :
              D \in SUBSET (Range(dims) \cup {"agency"}) }

DatasetLengths == {0, 1, 2}

\* the definitions the reordering is checked on, classified as
\* process_aggregation_query returns them
ReorderDefinitions ==
    { WithClassification(Definition(d, <<CountMeasure>>, pre, <<>>, t, "data"), d) :
        d \in UniqueSeqs(VizDims, MaxDims),
        pre \in {<<>>, <<"borough", "=", "'BRONX'">>},
        t \in {NoTopN, [present |-> TRUE,
                        orderByKey |-> << <<"num_of_requests", "DESC">> >>, topN |-> 10]} }

TotalUniqueValues == {1, 2}

\* the statistics of calculate_dimension_cardinality_stats that the reordering
\* reads: a total_unique per dimension, some missing, and possibly a key that
\* is no dimension of the definition
ReorderStatsFor(dims) ==
    UNION { [D -> {[total_unique |-> n] : n \in TotalUniqueValues}] :
              D \in SUBSET (Range(dims) \cup {"agency"}) }

\* the columns a result set may have, and the values of a cell
StatsColumns == {"complaint_type", "borough", "agency"}

StatsValues == {1, 2}

\* the result sets: rows over one set of columns
RowSets == UNION {SUBSET [C -> StatsValues] : C \in (SUBSET StatsColumns) \ {{}}}

StatsDefinitions ==
    {WithClassification(Definition(d, <<CountMeasure>>, <<>>, <<>>, NoTopN, "data"), d) :
        d \in UniqueSeqs(StatsColumns, MaxDims)}

\* dimensions for the classifier of main.py: two time dimensions, one
\* categorical, an area and a point geography
ChartDims == {"created_date", "created_month", "complaint_type", "borough", "location"}

ChartDefinitions ==
    {WithClassification(Definition(d, m, <<>>, <<>>, NoTopN, r), d) :
        d \in UniqueSeqs(ChartDims, MaxDims),
        m \in SeqsUpTo({CountMeasure, AvgMeasure}, MaxMeasures),
        r \in {"data", "text"}}

\* statistics for any subset of the dimensions, at and above the threshold
ChartStatsFor(dims) ==
    UNION {[D -> [total_unique : {CARDINALITY_THRESHOLD, CARDINALITY_THRESHOLD + 1}]] :
              D \in SUBSET Range(dims)}

NoStats == <<>>

NoViz == [available |-> <<>>, ideal |-> "none"]

NoDefinition == Definition(<<>>, <<>>, <<>>, <<>>, NoTopN, "none")

NoRows == {}

\* the requests that arrive at the service
Requests == 1..MaxRequests

NoRequest == 0

NoRequests == [r \in Requests |-> "new"]

(***************************************************************************)
(* The request pipeline: process_aggregation_query from the parsed         *)
(* definition on, re-submitted with any caller location.                   *)
(***************************************************************************)
TypeOK ==
    /\ pc \in {"received", "compiled", "done", "input", "classified",
              "analysed", "reordered", "reordered_twice",
              "rows", "stats_done", "stats_raised", "chart_input", "charted",
              "serving"}
    /\ engine_calls \in Nat
    /\ request_pc \in [Requests -> {"new", "arrived", "handling", "in_db_call",
                                    "analysing", "responded"}]
    /\ loop_thread \in Requests \cup {NoRequest}

Init ==
    /\ pc = "received"
    /\ agg_def \in QueryDefinitions
    /\ user_location \in Locations
    /\ sql = NoSql
    /\ outcome = NoOutcome
    /\ engine_calls = 0
    /\ engine_sql = NoSql
    /\ log = <<>>
    /\ returned = [l \in Locations |-> NoSql]
    /\ dimension_stats = NoStats
    /\ dataset_length = 0
    /\ viz = NoViz
    /\ reordered = NoDefinition
    /\ dataset = NoRows
    /\ request_pc = NoRequests
    /\ loop_thread = NoRequest

\* lines 562-572: classify the dimensions and generate the SQL
Compile ==
    /\ pc = "received"
    /\ LET d == WithClassification(agg_def, agg_def.dimensions)
       IN  /\ agg_def' = d
           /\ sql' = generate_sql(d, "requests_311")
    /\ pc' = "compiled"
    /\ UNCHANGED <<user_location, outcome, engine_calls, engine_sql, log, returned,
                   dimension_stats, dataset_length, viz,
                   reordered, dataset, request_pc, loop_thread>>

\* lines 574-578: location is required but not provided
ReturnLocationRequired ==
    /\ pc = "compiled"
    /\ LocationRequired(sql, user_location)
    /\ outcome' = [NoOutcome EXCEPT !.kind = "locationRequired"]
    /\ pc' = "done"
    /\ UNCHANGED <<agg_def, user_location, sql, engine_calls, engine_sql, log, returned,
                   dimension_stats, dataset_length, viz,
                   reordered, dataset, request_pc, loop_thread>>

\* lines 580-589 with execute_sql_in_duckDB succeeding
ExecuteOk ==
    /\ pc = "compiled"
    /\ ~LocationRequired(sql, user_location)
    \* the engine rejects a statement whose SELECT list starts with a comma
    /\ Len(build_select_clause(agg_def)) > 0
    /\ LET execution_sql == ExecutionSql(sql, user_location)
       IN  /\ engine_sql' = execution_sql
           /\ \E row_count \in RowCounts :
                  outcome' = [kind |-> "success",
                              sql |-> ResultSql(sql, execution_sql),
                              dataset |-> Dataset(agg_def, row_count),
                              statistics |-> Statistics(agg_def, row_count)]
           /\ returned' = [returned EXCEPT ![user_location] = ResultSql(sql, execution_sql)]
    /\ engine_calls' = engine_calls + 1
    /\ log' = log \o StartLogRecords(sql, user_location)
                  \o SuccessLogRecords(sql, user_location)
    /\ pc' = "done"
    /\ UNCHANGED <<agg_def, user_location, sql, dimension_stats, dataset_length, viz,
                   reordered, dataset, request_pc, loop_thread>>

\* lines 580-581 with execute_sql_in_duckDB raising from its try block
ExecuteFail ==
    /\ pc = "compiled"
    /\ ~LocationRequired(sql, user_location)
    /\ LET execution_sql == ExecutionSql(sql, user_location)
       IN  /\ engine_sql' = execution_sql
           /\ \E message \in EngineErrorMessages(execution_sql) :
                  log' = log \o StartLogRecords(sql, user_location)
                             \o ErrorLogRecords(message, execution_sql, user_location,
                                                LocationUsed(sql, user_location))
    /\ engine_calls' = engine_calls + 1
    /\ outcome' = [NoOutcome EXCEPT !.kind = "error"]
    /\ pc' = "done"
    /\ UNCHANGED <<agg_def, user_location, sql, returned,
                   dimension_stats, dataset_length, viz,
                   reordered, dataset, request_pc, loop_thread>>

\* the same definition arrives again, with any caller location
Resubmit ==
    /\ pc = "done"
    /\ user_location' \in Locations
    /\ pc' = "received"
    /\ sql' = NoSql
    /\ outcome' = NoOutcome
    /\ engine_calls' = 0
    /\ engine_sql' = NoSql
    /\ log' = <<>>
    /\ UNCHANGED <<agg_def, returned, dimension_stats, dataset_length, viz,
                   reordered, dataset, request_pc, loop_thread>>

Next == Compile \/ ReturnLocationRequired \/ ExecuteOk \/ ExecuteFail \/ Resubmit

Spec == Init /\ [][Next]_vars

(***************************************************************************)
(* The request pipeline on definitions whose names hold the words of the   *)
(* location check.                                                         *)
(***************************************************************************)
InitLocation ==
    /\ pc = "received"
    /\ agg_def \in LocationDefinitions
    /\ user_location \in Locations
    /\ sql = NoSql
    /\ outcome = NoOutcome
    /\ engine_calls = 0
    /\ engine_sql = NoSql
    /\ log = <<>>
    /\ returned = [l \in Locations |-> NoSql]
    /\ dimension_stats = NoStats
    /\ dataset_length = 0
    /\ viz = NoViz
    /\ reordered = NoDefinition
    /\ dataset = NoRows
    /\ request_pc = NoRequests
    /\ loop_thread = NoRequest

SpecLocation == InitLocation /\ [][Next]_vars

(***************************************************************************)
(* The compiler alone, on a wider set of definitions.                      *)
(***************************************************************************)
InitSql ==
    /\ pc = "received"
    /\ agg_def \in SqlDefinitions
    /\ user_location = NoLocation
    /\ sql = NoSql
    /\ outcome = NoOutcome
    /\ engine_calls = 0
    /\ engine_sql = NoSql
    /\ log = <<>>
    /\ returned = [l \in Locations |-> NoSql]
    /\ dimension_stats = NoStats
    /\ dataset_length = 0
    /\ viz = NoViz
    /\ reordered = NoDefinition
    /\ dataset = NoRows
    /\ request_pc = NoRequests
    /\ loop_thread = NoRequest

NextSql == Compile

SpecSql == InitSql /\ [][NextSql]_vars

(***************************************************************************)
(* The classifier, as a function of its three arguments.                   *)
(***************************************************************************)
InitViz ==
    /\ pc = "input"
    /\ agg_def \in VizDefinitions
    /\ dimension_stats \in StatsFor(agg_def.dimensions)
    /\ dataset_length \in DatasetLengths
    /\ viz = NoViz
    /\ reordered = NoDefinition
    /\ dataset = NoRows
    /\ request_pc = NoRequests
    /\ loop_thread = NoRequest
    /\ user_location = NoLocation
    /\ sql = NoSql
    /\ outcome = NoOutcome
    /\ engine_calls = 0
    /\ engine_sql = NoSql
    /\ log = <<>>
    /\ returned = [l \in Locations |-> NoSql]

Classify ==
    /\ pc = "input"
    /\ viz' = get_viz_recommendations(agg_def, dimension_stats, dataset_length)
    /\ pc' = "classified"
    /\ UNCHANGED <<agg_def, user_location, sql, outcome, engine_calls, engine_sql, log,
                   returned, dimension_stats, dataset_length,
                   reordered, dataset, request_pc, loop_thread>>

NextViz == Classify

SpecViz == InitViz /\ [][NextViz]_vars

(***************************************************************************)
(* The reordering of the dimensions by cardinality, applied to a           *)
(* definition and applied again to its result.                             *)
(***************************************************************************)
InitReorder ==
    /\ pc = "analysed"
    /\ agg_def \in ReorderDefinitions
    /\ dimension_stats \in ReorderStatsFor(agg_def.dimensions)
    /\ reordered = NoDefinition
    /\ dataset_length = 0
    /\ viz = NoViz
    /\ dataset = NoRows
    /\ request_pc = NoRequests
    /\ loop_thread = NoRequest
    /\ user_location = NoLocation
    /\ sql = NoSql
    /\ outcome = NoOutcome
    /\ engine_calls = 0
    /\ engine_sql = NoSql
    /\ log = <<>>
    /\ returned = [l \in Locations |-> NoSql]

Reorder ==
    /\ pc = "analysed"
    /\ reordered' = reorder_dimensions_by_cardinality(agg_def, dimension_stats)
    /\ pc' = "reordered"
    /\ UNCHANGED <<agg_def, user_location, sql, outcome, engine_calls, engine_sql, log,
                   returned, dimension_stats, dataset_length, viz,
                   dataset, request_pc, loop_thread>>

ReorderAgain ==
    /\ pc = "reordered"
    /\ reordered' = reorder_dimensions_by_cardinality(reordered, dimension_stats)
    /\ pc' = "reordered_twice"
    /\ UNCHANGED <<agg_def, user_location, sql, outcome, engine_calls, engine_sql, log,
                   returned, dimension_stats, dataset_length, viz,
                   dataset, request_pc, loop_thread>>

NextReorder == Reorder \/ ReorderAgain

SpecReorder == InitReorder /\ [][NextReorder]_vars

(***************************************************************************)
(* The cardinality statistics of a result set.                             *)
(***************************************************************************)
InitStats ==
    /\ pc = "rows"
    /\ agg_def \in StatsDefinitions
    /\ dataset \in RowSets
    /\ dimension_stats = NoStats
    /\ reordered = NoDefinition
    /\ dataset_length = 0
    /\ viz = NoViz
    /\ request_pc = NoRequests
    /\ loop_thread = NoRequest
    /\ user_location = NoLocation
    /\ sql = NoSql
    /\ outcome = NoOutcome
    /\ engine_calls = 0
    /\ engine_sql = NoSql
    /\ log = <<>>
    /\ returned = [l \in Locations |-> NoSql]

CalculateStats ==
    /\ pc = "rows"
    /\ ~GroupByRaises(dataset, agg_def.dimensions)
    /\ dimension_stats' = calculate_dimension_cardinality_stats(dataset, agg_def.dimensions)
    /\ pc' = "stats_done"
    /\ UNCHANGED <<agg_def, user_location, sql, outcome, engine_calls, engine_sql, log,
                   returned, dataset_length, viz, reordered,
                   dataset, request_pc, loop_thread>>

CalculateStatsRaises ==
    /\ pc = "rows"
    /\ GroupByRaises(dataset, agg_def.dimensions)
    /\ pc' = "stats_raised"
    /\ UNCHANGED <<agg_def, user_location, sql, outcome, engine_calls, engine_sql, log,
                   returned, dimension_stats, dataset_length, viz, reordered,
                   dataset, request_pc, loop_thread>>

NextStats == CalculateStats \/ CalculateStatsRaises

SpecStats == InitStats /\ [][NextStats]_vars

(***************************************************************************)
(* The classifier of main.py alone.                                        *)
(***************************************************************************)
InitChart ==
    /\ pc = "chart_input"
    /\ agg_def \in ChartDefinitions
    /\ dimension_stats \in ChartStatsFor(agg_def.dimensions)
    /\ viz = NoViz
    /\ dataset = NoRows
    /\ reordered = NoDefinition
    /\ dataset_length = 0
    /\ request_pc = NoRequests
    /\ loop_thread = NoRequest
    /\ user_location = NoLocation
    /\ sql = NoSql
    /\ outcome = NoOutcome
    /\ engine_calls = 0
    /\ engine_sql = NoSql
    /\ log = <<>>
    /\ returned = [l \in Locations |-> NoSql]

Chart ==
    /\ pc = "chart_input"
    /\ viz' = get_chart_options(agg_def, dimension_stats)
    /\ pc' = "charted"
    /\ UNCHANGED <<agg_def, user_location, sql, outcome, engine_calls, engine_sql, log,
                   returned, dimension_stats, dataset_length, reordered,
                   dataset, request_pc, loop_thread>>

NextChart == Chart

SpecChart == InitChart /\ [][NextChart]_vars

(***************************************************************************)
(* Concurrent requests on the event loop of one server process.  The       *)
(* handlers process_prompt, execute_sql_query and process_aggregation_query *)
(* are coroutines, and execute_sql_in_duckDB is a plain function called     *)
(* from the coroutine (query_engine.py line 581), so the thread that runs   *)
(* the loop runs the database call; loop_thread is the request whose        *)
(* coroutine that thread is running.                                        *)
(***************************************************************************)
InitLoop ==
    /\ pc = "serving"
    /\ request_pc = NoRequests
    /\ loop_thread = NoRequest
    /\ agg_def = NoDefinition
    /\ dimension_stats = NoStats
    /\ viz = NoViz
    /\ dataset = NoRows
    /\ reordered = NoDefinition
    /\ dataset_length = 0
    /\ user_location = NoLocation
    /\ sql = NoSql
    /\ outcome = NoOutcome
    /\ engine_calls = 0
    /\ engine_sql = NoSql
    /\ log = <<>>
    /\ returned = [l \in Locations |-> NoSql]

\* a request reaches the server; the loop has not picked it up yet
Arrive(r) ==
    /\ request_pc[r] = "new"
    /\ request_pc' = [request_pc EXCEPT ![r] = "arrived"]
    /\ UNCHANGED <<pc, agg_def, user_location, sql, outcome, engine_calls, engine_sql, log,
                   returned, dimension_stats, dataset_length, viz, reordered,
                   dataset, loop_thread>>

\* the loop starts the coroutine process_prompt of a request: it runs one
\* coroutine at a time, up to the coroutine's next suspension
StartHandling(r) ==
    /\ request_pc[r] = "arrived"
    /\ loop_thread = NoRequest
    /\ request_pc' = [request_pc EXCEPT ![r] = "handling"]
    /\ loop_thread' = r
    /\ UNCHANGED <<pc, agg_def, user_location, sql, outcome, engine_calls, engine_sql, log,
                   returned, dimension_stats, dataset_length, viz, reordered, dataset>>

\* process_aggregation_query calls execute_sql_in_duckDB, which calls
\* con.execute(execution_sql).fetchdf(): a direct call, on the thread of the loop
EnterDbCall(r) ==
    /\ request_pc[r] = "handling"
    /\ loop_thread = r
    /\ request_pc' = [request_pc EXCEPT ![r] = "in_db_call"]
    /\ UNCHANGED <<pc, agg_def, user_location, sql, outcome, engine_calls, engine_sql, log,
                   returned, dimension_stats, dataset_length, viz, reordered,
                   dataset, loop_thread>>

\* the database call returns to the coroutine
DbCallReturns(r) ==
    /\ request_pc[r] = "in_db_call"
    /\ loop_thread = r
    /\ request_pc' = [request_pc EXCEPT ![r] = "analysing"]
    /\ UNCHANGED <<pc, agg_def, user_location, sql, outcome, engine_calls, engine_sql, log,
                   returned, dimension_stats, dataset_length, viz, reordered,
                   dataset, loop_thread>>

\* statistics, chart recommendation and response; the coroutine ends and the
\* loop is free for the next one
Respond(r) ==
    /\ request_pc[r] = "analysing"
    /\ loop_thread = r
    /\ request_pc' = [request_pc EXCEPT ![r] = "responded"]
    /\ loop_thread' = NoRequest
    /\ UNCHANGED <<pc, agg_def, user_location, sql, outcome, engine_calls, engine_sql, log,
                   returned, dimension_stats, dataset_length, viz, reordered, dataset>>

NextLoop ==
    \E r \in Requests :
        \/ Arrive(r)
        \/ StartHandling(r)
        \/ EnterDbCall(r)
        \/ DbCallReturns(r)
        \/ Respond(r)

SpecLoop == InitLoop /\ [][NextLoop]_vars

(***************************************************************************)
(* Properties.                                                             *)
(***************************************************************************)
\* a location placeholder token, in single- or double-brace form (the
\* double-brace form holds the single-brace one)
HasLocationPlaceholder(text) ==
    ContainsSeq(text, LatSingle) \/ ContainsSeq(text, LngSingle)

\* the last n atoms of text
LastAtoms(text, n) ==
    IF Len(text) < n THEN text ELSE SubSeq(text, Len(text) - n + 1, Len(text))

\* C1: when the compiled SQL holds a location placeholder and no caller
\* location was supplied, the engine is not called for that request, the
\* request does not end in an execution error, and it ends in LocationRequired.
C1_LocationRequiredBeforeExecution ==
    (pc \in {"compiled", "done"} /\ HasLocationPlaceholder(sql)
        /\ ~LocationEnabled(user_location))
    => /\ engine_calls = 0
       /\ engine_sql = NoSql
       /\ outcome.kind # "error"
       /\ (pc = "done" => outcome.kind = "locationRequired")

C1_Witness ==
    /\ pc = "done"
    /\ ~LocationEnabled(user_location)
    /\ ContainsSeq(sql, LngSingle)
    /\ ~Contains(sql, "user_latitude")
    /\ outcome.kind = "locationRequired"
    /\ engine_calls = 0

\* C2: the compiled SQL and the sql field handed back keep the filters'
\* placeholder tokens as written, and the sql handed back for one definition
\* is the same text whatever caller location the request carried.
C2_ReturnedSqlIndependentOfLocation ==
    /\ \A l1, l2 \in Locations :
           (returned[l1] # NoSql /\ returned[l2] # NoSql) => returned[l1] = returned[l2]
    /\ pc \in {"compiled", "done"} =>
           /\ Len(agg_def.preAggregationFilters) > 0 =>
                  ContainsSeq(sql, <<"WHERE">> \o agg_def.preAggregationFilters)
           /\ Len(agg_def.postAggregationFilters) > 0 =>
                  ContainsSeq(sql, <<"HAVING">> \o agg_def.postAggregationFilters)
    /\ outcome.kind = "success" =>
           /\ outcome.sql = sql
           /\ HasLocationPlaceholder(agg_def.preAggregationFilters
                                     \o agg_def.postAggregationFilters)
                  => HasLocationPlaceholder(outcome.sql)

C2_Witness ==
    \E l1, l2 \in Locations :
        /\ l1 # l2 /\ LocationEnabled(l1) /\ LocationEnabled(l2)
        /\ returned[l1] # NoSql /\ returned[l2] # NoSql
        /\ HasLocationPlaceholder(returned[l1])
        /\ engine_sql # sql /\ outcome.kind = "success"

\* C3: no log record written while execute_sql_in_duckDB fails after a caller
\* location was substituted holds the caller's latitude or longitude.
C3_NoCoordinateInErrorLog ==
    (pc = "done" /\ outcome.kind = "error" /\ LocationUsed(sql, user_location))
    => \A i \in 1..Len(log) :
           /\ ~Contains(log[i], user_location.latitude)
           /\ ~Contains(log[i], user_location.longitude)

\* C4: with topN set the SQL ends with ORDER BY <orderByKey joined> LIMIT <topN>
\* and the compiler emits no other ORDER BY and no other LIMIT.
C4_TopNOrderAndLimit ==
    (pc = "compiled" /\ agg_def.topN.present)
    => LET keys == Join(agg_def.topN.orderByKey, <<",">>)
           clause == <<"ORDER BY">> \o keys \o <<"LIMIT", ToString(agg_def.topN.topN)>>
           inputs == agg_def.preAggregationFilters \o agg_def.postAggregationFilters
       IN  /\ LastAtoms(sql, Len(clause) + 1) = clause \o <<";">>
           /\ Count(sql, "ORDER BY") = 1 + Count(inputs, "ORDER BY")
           /\ Count(sql, "LIMIT") = 1 + Count(inputs, "LIMIT")
           /\ ~ContainsSeq(sql, <<"LIMIT", ToString(DEFAULT_LIMIT)>>)

C4_Witness ==
    /\ pc = "compiled"
    /\ agg_def.topN.present
    /\ Len(agg_def.timeDimension) > 0
    /\ Len(agg_def.measures) > 0
    /\ Len(agg_def.topN.orderByKey) = 2
    /\ Contains(agg_def.preAggregationFilters, "LIMIT")
    /\ LastAtoms(sql, 3) = <<"LIMIT", "3", ";">>

\* C5: without topN the SQL ends with the default row cap LIMIT 5000,
\* whatever the filter fragments contain.
C5_DefaultLimitWithoutTopN ==
    (pc = "compiled" /\ ~agg_def.topN.present)
    => LastAtoms(sql, 3) = <<"LIMIT", ToString(DEFAULT_LIMIT), ";">>

\* C6: the available list is not empty and holds the ideal chart type.
C6_IdealIsAvailable ==
    pc = "classified"
    => /\ Len(viz.available) > 0
       /\ viz.ideal \in Range(viz.available)

C6_Witness ==
    /\ pc = "classified"
    /\ viz.ideal = "heatmap"
    /\ viz.available = <<"heatmap">>

TextCase == dataset_length # 1 /\ agg_def.response_type = "text"

PointMapCase ==
    /\ dataset_length # 1
    /\ agg_def.response_type # "text"
    /\ agg_def.dimensions = <<"location">>
    /\ Len(agg_def.measures) = 1

C8_SingleRowIsTable ==
    (pc = "classified" /\ dataset_length = 1) => viz = TableOnly

C8_Witness ==
    /\ pc = "classified"
    /\ dataset_length = 1
    /\ agg_def.response_type = "text"
    /\ agg_def.dimensions = <<"location">>
    /\ Len(agg_def.measures) = 1
    /\ viz = TableOnly

\* C9 as stated: more than 2 dimensions, or no measure, yields exactly
\* (["table"], "table") whatever the other inputs are.
C9_TooComplexIsTable ==
    (pc = "classified"
        /\ (Len(agg_def.dimensions) > 2 \/ Len(agg_def.measures) = 0))
    => viz = TableOnly

\* C9 amended: so it is unless the response type is "text" and the result is
\* not a single row, and then the result is (["text"], "text").
C9_TooComplexIsTableUnlessText ==
    (pc = "classified"
        /\ (Len(agg_def.dimensions) > 2 \/ Len(agg_def.measures) = 0))
    => viz = (IF TextCase THEN TextOnly ELSE TableOnly)

C9_Witness ==
    /\ pc = "classified"
    /\ agg_def.dimensions = <<"created_date", "complaint_type", "borough">>
    /\ Len(agg_def.measures) = 1
    /\ agg_def.response_type = "data"
    /\ dataset_length = 2
    /\ viz = TableOnly

\* C10 as stated: a text response type yields exactly (["text"], "text")
\* whatever the row count is.
C10_TextAheadOfAll ==
    (pc = "classified" /\ agg_def.response_type = "text") => viz = TextOnly

\* C10 amended: so it is for every row count but 1; a single-row result
\* yields (["table"], "table") first.
C10_TextAheadOfAllButSingleRow ==
    (pc = "classified" /\ agg_def.response_type = "text")
    => viz = (IF dataset_length = 1 THEN TableOnly ELSE TextOnly)

C10_Witness ==
    /\ pc = "classified"
    /\ agg_def.response_type = "text"
    /\ Len(agg_def.dimensions) > 2
    /\ Len(agg_def.measures) = 0
    /\ dataset_length = 2
    /\ viz = TextOnly

(***************************************************************************)
(* The classifier's concrete scenarios.                                    *)
(***************************************************************************)
\* the call returned from the selection logic: a data response of more than
\* one row
SelectedForData ==
    /\ pc = "classified"
    /\ dataset_length > 1
    /\ agg_def.response_type = "data"

\* exactly one measure, and it is additive
OneAdditiveMeasure ==
    Len(agg_def.measures) = 1 /\ is_measure_additive(agg_def.measures[1].alias)

\* one time dimension plus one categorical dimension of cardinality below the
\* threshold, one additive measure
TimeSeriesBreakdownCase ==
    LET c == classify_dimensions(agg_def.dimensions)
    IN  /\ Len(agg_def.dimensions) = 2
        /\ Len(c.time) = 1
        /\ Len(c.cat) = 1
        /\ c.cat[1] \in DOMAIN dimension_stats
        /\ dimension_stats[c.cat[1]] < CARDINALITY_THRESHOLD
        /\ OneAdditiveMeasure

\* C11: one time dimension plus one categorical dimension of cardinality
\* below the threshold, one additive measure and more than one row: the ideal
\* chart is stacked_area_chart and table, line_chart, stacked_area_chart and
\* stacked_area_chart_100 are available.
C11_StackedAreaIdeal ==
    (SelectedForData /\ TimeSeriesBreakdownCase)
    => /\ viz.ideal = "stacked_area_chart"
       /\ {"table", "line_chart", "stacked_area_chart", "stacked_area_chart_100"}
              \subseteq Range(viz.available)

\* two categorical dimensions, both of known cardinality above the threshold,
\* and one measure
TwoHighCardinalityCase ==
    LET c == classify_dimensions(agg_def.dimensions)
    IN  /\ Len(c.cat) = 2
        /\ \A i \in 1..2 : /\ c.cat[i] \in DOMAIN dimension_stats
                           /\ dimension_stats[c.cat[i]] > CARDINALITY_THRESHOLD
        /\ Len(agg_def.measures) = 1

BarChartsOfTwo == {"grouped_bar_chart", "stacked_bar_chart", "stacked_bar_chart_100"}

PointGeometryCase ==
    /\ agg_def.dimensions = <<"location">>
    /\ OneAdditiveMeasure

SingleCategoryCase ==
    /\ Len(agg_def.dimensions) = 1
    /\ ~IsTimeDim(agg_def.dimensions[1])
    /\ ~IsGeoDim(agg_def.dimensions[1])
    /\ agg_def.dimensions[1] \in DOMAIN dimension_stats
    /\ dimension_stats[agg_def.dimensions[1]] <= CARDINALITY_THRESHOLD
    /\ OneAdditiveMeasure

\* C14 as stated: one categorical dimension of cardinality at or below the
\* threshold, one additive measure, more than one row: the ideal chart is
\* single_bar_chart and table, single_bar_chart and treemap are available.
C14_SingleBarWithTreemap ==
    (SelectedForData /\ SingleCategoryCase)
    => /\ viz.ideal = "single_bar_chart"
       /\ {"table", "single_bar_chart", "treemap"} \subseteq Range(viz.available)

\* C14: one categorical dimension of cardinality at or below the threshold,
\* one additive measure, more than one row, a data response: the ideal chart
\* is single_bar_chart, table and single_bar_chart are available, and treemap
\* is available exactly when the query is not a top-N query.
C14_SingleBarTreemapUnlessTopN ==
    (SelectedForData /\ SingleCategoryCase)
    => /\ viz.ideal = "single_bar_chart"
       /\ {"table", "single_bar_chart"} \subseteq Range(viz.available)
       /\ "treemap" \in Range(viz.available) <=> ~agg_def.topN.present

C14_Witness ==
    /\ SelectedForData
    /\ SingleCategoryCase
    /\ ~agg_def.topN.present
    /\ viz = [available |-> <<"table", "single_bar_chart", "treemap">>,
              ideal |-> "single_bar_chart"]

(***************************************************************************)
(* The compiler's clauses.                                                 *)
(***************************************************************************)
\* the position of the first atom a of text
FirstIndex(text, a) ==
    CHOOSE i \in 1..Len(text) : text[i] = a /\ \A j \in 1..(i - 1) : text[j] # a

\* the condition of the WHERE clause of a statement that has a GROUP BY clause
WhereCondition(text) ==
    SubSeq(text, FirstIndex(text, "WHERE") + 1, FirstIndex(text, "GROUP BY") - 1)

ConditionOperators == {"AND", "OR", "(", ")"}

\* the nesting depth of parentheses in front of position i
Depth(t, i) ==
    Cardinality({j \in 1..(i - 1) : t[j] = "("})
    - Cardinality({j \in 1..(i - 1) : t[j] = ")"})

\* the positions of operator op outside every parenthesis
TopLevel(t, op) == {i \in 1..Len(t) : t[i] = op /\ Depth(t, i) = 0}

Least(S) == CHOOSE i \in S : \A j \in S : i <= j

\* the comparisons of condition t: the runs of atoms that no operator
\* interrupts and that an operator or an end of t bounds on both sides
ComparisonsOf(t) ==
    { SubSeq(t, p[1], p[2]) :
        p \in { q \in (1..Len(t)) \X (1..Len(t)) :
                  /\ q[1] <= q[2]
                  /\ \A m \in q[1]..q[2] : t[m] \notin ConditionOperators
                  /\ (q[1] = 1 \/ t[q[1] - 1] \in ConditionOperators)
                  /\ (q[2] = Len(t) \/ t[q[2] + 1] \in ConditionOperators) } }

\* SQL's reading of condition t for a row on which exactly the comparisons of
\* V hold: OR binds loosest, then AND, then parentheses
RECURSIVE Holds(_, _)
Holds(t, V) ==
    IF TopLevel(t, "OR") # {}
    THEN LET i == Least(TopLevel(t, "OR"))
         IN  Holds(SubSeq(t, 1, i - 1), V) \/ Holds(SubSeq(t, i + 1, Len(t)), V)
    ELSE IF TopLevel(t, "AND") # {}
    THEN LET i == Least(TopLevel(t, "AND"))
         IN  Holds(SubSeq(t, 1, i - 1), V) /\ Holds(SubSeq(t, i + 1, Len(t)), V)
    ELSE IF Len(t) >= 2 /\ t[1] = "(" /\ t[Len(t)] = ")"
    THEN Holds(SubSeq(t, 2, Len(t) - 1), V)
    ELSE t \in V

\* C15: with pre-aggregation filters and at least one quality filter, the
\* WHERE condition of the compiled SQL holds of a row exactly when the
\* pre-aggregation filter holds of it and every quality filter holds of it.
C15_WhereIsConjunction ==
    (/\ pc = "compiled"
     /\ Len(agg_def.preAggregationFilters) > 0
     /\ Len(QualityFilters(agg_def.dimensions)) > 0)
    => LET w == WhereCondition(sql)
           q == QualityFilters(agg_def.dimensions)
       IN  \A V \in SUBSET ComparisonsOf(w) :
               Holds(w, V) <=> /\ Holds(agg_def.preAggregationFilters, V)
                               /\ \A i \in 1..Len(q) : Holds(q[i], V)

\* C18: no SQL is returned for a definition in which two measures share an
\* alias.
C18_DuplicateAliasRejected ==
    (/\ pc = "compiled"
     /\ \E i, j \in 1..Len(agg_def.measures) :
            i # j /\ agg_def.measures[i].alias = agg_def.measures[j].alias)
    => sql = NoSql

\* the companion column of a weekday label field
WeekdayOrder ==
    [created_weekday_datepart |-> "MIN(created_weekday_order)",
     closed_weekday_datepart |-> "MIN(closed_weekday_order)"]

\* rules (b) to (d): the first time dimension, else the first measure
OrderByTimeOrMeasure(definition) ==
    LET time_dims == SelectSeq(definition.dimensions, IsTimeDim)
    IN  IF Len(time_dims) > 0 THEN <<"ORDER BY", time_dims[1], "ASC">>
        ELSE IF Len(definition.measures) > 0
        THEN <<"ORDER BY", definition.measures[1].alias, "DESC">>
        ELSE <<>>

\* the claim's rules (a) to (d)
OrderAsStated(definition) ==
    LET dims == definition.dimensions
    IN  IF Len(dims) = 1 /\ dims[1] \in DOMAIN WeekdayOrder
        THEN <<"ORDER BY", WeekdayOrder[dims[1]], "ASC">>
        ELSE OrderByTimeOrMeasure(definition)

\* the rules with the resolution-time bin ahead of them
OrderAsAmended(definition) ==
    LET dims == definition.dimensions
    IN  IF Len(dims) = 1 /\ dims[1] = "time_to_resolve_day_bin"
        THEN <<"ORDER BY", "time_to_resolve_day_bin", "ASC">>
        ELSE OrderAsStated(definition)

\* the compiled statement ends with ordering clause o, followed by nothing but
\* the default limit and the semicolon
EndsWithOrder(text, o) ==
    IF Len(o) = 0 THEN ~Contains(text, "ORDER BY")
    ELSE /\ Count(text, "ORDER BY") = 1
         /\ \/ LastAtoms(text, Len(o) + 1) = o \o <<";">>
            \/ LastAtoms(text, Len(o) + 3) = o \o DefaultLimitClause \o <<";">>

\* C19 as stated: without topN the ordering is the first that matches of:
\* a single weekday label dimension by its companion column ascending; the
\* first time dimension ascending; the first measure's alias descending; none.
C19_OrderingRules ==
    (pc = "compiled" /\ ~agg_def.topN.present)
    => EndsWithOrder(sql, OrderAsStated(agg_def))

\* C19: without topN the ordering is the first that matches of: a single
\* dimension time_to_resolve_day_bin by itself ascending; a single weekday
\* label dimension by its companion column ascending; the first time
\* dimension ascending; the first measure's alias descending; none.
C19_OrderingRulesWithBin ==
    (pc = "compiled" /\ ~agg_def.topN.present)
    => EndsWithOrder(sql, OrderAsAmended(agg_def))

C19_Witness ==
    /\ pc = "compiled"
    /\ ~agg_def.topN.present
    /\ agg_def.dimensions = <<"time_to_resolve_day_bin">>
    /\ Len(agg_def.measures) > 0
    /\ ContainsSeq(sql, <<"ORDER BY", "time_to_resolve_day_bin", "ASC">>)

\* the positional indices 1..n, separated by commas
PositionalIndices(n) ==
    [k \in 1..(2 * n - 1) |-> IF k % 2 = 1 THEN ToString((k + 1) \div 2) ELSE ","]

\* C20: the compiled SQL has a GROUP BY clause exactly when the definition has
\* a dimension, and the clause lists the positional indices 1..N in increasing
\* order and nothing else, N being the number of dimensions.
C20_GroupByPositions ==
    pc = "compiled"
    => LET n == Len(agg_def.dimensions)
       IN  /\ Contains(sql, "GROUP BY") <=> n > 0
           /\ n > 0 =>
                  LET g == FirstIndex(sql, "GROUP BY")
                  IN  /\ Count(sql, "GROUP BY") = 1
                      /\ SubSeq(sql, g + 1, g + 2 * n - 1) = PositionalIndices(n)
                      /\ sql[g + 2 * n] \in {"HAVING", "ORDER BY", "LIMIT", ";"}

C20_Witness ==
    /\ pc = "compiled"
    /\ Len(agg_def.dimensions) = 2
    /\ ContainsSeq(sql, <<"GROUP BY", "1", ",", "2">>)
    /\ ~ContainsSeq(sql, <<"GROUP BY", "1", ",", "2", ",">>)

(***************************************************************************)
(* The executor's results.                                                 *)
(***************************************************************************)
\* the request returned records of a query whose measure aliases differ
ReturnedRows ==
    /\ pc = "done"
    /\ outcome.kind = "success"
    /\ outcome.dataset.row_count > 0
    /\ \A i, j \in 1..Len(agg_def.measures) :
           i # j => agg_def.measures[i].alias # agg_def.measures[j].alias

\* the names of the query's dimensions and measure aliases
DataColumnNames ==
    {NameWords[agg_def.dimensions[i]] : i \in 1..Len(agg_def.dimensions)}
    \cup {NameWords[agg_def.measures[i].alias] : i \in 1..Len(agg_def.measures)}

ReferenceColumnNames == {<<"reference", "borough">>, <<"reference", "neighborhood">>}

PerMeasureStatistics == {<<"avg">>, <<"median">>, <<"stddev">>}

\* C17: every key of the per-measure statistics is the alias of a measure of
\* the query, and the avg, median, stddev, top 3 and bottom 3 of a measure
\* with alias A are stored under key A.
C17_StatisticsKeyedByAlias ==
    (ReturnedRows /\ Len(agg_def.measures) > 0)
    => /\ \A e \in outcome.statistics :
              \E i \in 1..Len(agg_def.measures) :
                  e.measure_name = NameWords[agg_def.measures[i].alias]
       /\ \A i \in 1..Len(agg_def.measures) :
              LET A == NameWords[agg_def.measures[i].alias]
                  stored == {e.stat_name : e \in {x \in outcome.statistics :
                                                      x.measure_name = A}}
              IN  /\ PerMeasureStatistics \subseteq stored
                  /\ Len(agg_def.dimensions) > 0
                         => \E t, b \in stored : t[1] = "top" /\ b[1] = "bottom"

(***************************************************************************)
(* The reordering.                                                         *)
(***************************************************************************)
\* the total_unique of dimension d in the statistics of the state, 0 when d
\* has no entry
KnownTotalUnique(d) ==
    IF d \in DOMAIN dimension_stats THEN dimension_stats[d].total_unique ELSE 0

\* the position of dimension d in list dims
PositionIn(dims, d) == CHOOSE i \in 1..Len(dims) : dims[i] = d

\* the reordering does nothing: at most one dimension, or no statistics
ReorderIsNoOp == Len(agg_def.dimensions) <= 1 \/ DOMAIN dimension_stats = {}

\* C21: the reordering returns the definition unchanged when it has at most
\* one dimension or the statistics are empty; otherwise the returned
\* dimensions are a permutation of the input's in non-increasing order of
\* total_unique (0 for a dimension without an entry), dimensions of equal
\* total_unique keep their relative order, and measures, filters and topN are
\* unchanged.
C21_ReorderSortsStably ==
    pc = "reordered"
    => /\ ReorderIsNoOp => reordered = agg_def
       /\ ~ReorderIsNoOp =>
              LET in == agg_def.dimensions
                  out == reordered.dimensions
              IN  /\ Len(out) = Len(in)
                  /\ Range(out) = Range(in)
                  /\ \A i, j \in 1..Len(out) :
                         i < j => /\ KnownTotalUnique(out[i]) >= KnownTotalUnique(out[j])
                                  /\ KnownTotalUnique(out[i]) = KnownTotalUnique(out[j])
                                         => PositionIn(in, out[i]) < PositionIn(in, out[j])
                  /\ reordered.measures = agg_def.measures
                  /\ reordered.preAggregationFilters = agg_def.preAggregationFilters
                  /\ reordered.postAggregationFilters = agg_def.postAggregationFilters
                  /\ reordered.topN = agg_def.topN

C21_Witness ==
    /\ pc = "reordered"
    /\ Len(agg_def.dimensions) = 3
    /\ reordered.dimensions # agg_def.dimensions
    /\ \E i, j \in 1..3 :
           /\ i < j
           /\ KnownTotalUnique(agg_def.dimensions[i]) = KnownTotalUnique(agg_def.dimensions[j])
           /\ KnownTotalUnique(agg_def.dimensions[i]) > 0
    /\ agg_def.topN.present

\* C22: reordering the reordered definition with the same statistics returns
\* the reordered definition, also with equal total_unique values and with
\* dimensions that have no entry.
C22_ReorderIdempotent ==
    pc = "reordered_twice"
    => reordered = reorder_dimensions_by_cardinality(agg_def, dimension_stats)

C22_Witness ==
    /\ pc = "reordered_twice"
    /\ reordered.dimensions # agg_def.dimensions
    /\ \E i, j \in 1..Len(agg_def.dimensions) :
           /\ i # j
           /\ agg_def.dimensions[i] \notin DOMAIN dimension_stats
           /\ agg_def.dimensions[j] \in DOMAIN dimension_stats
    /\ \E i, j \in 1..Len(agg_def.dimensions) :
           /\ i # j
           /\ agg_def.dimensions[i] \in DOMAIN dimension_stats
           /\ KnownTotalUnique(agg_def.dimensions[i]) = KnownTotalUnique(agg_def.dimensions[j])

\* list sub keeps the relative order of list dims
KeepsOrderOf(sub, dims) ==
    \A i, j \in 1..Len(sub) : i < j => PositionIn(dims, sub[i]) < PositionIn(dims, sub[j])

\* the three classification lists of definition d fit its dimensions
ClassificationFits(d) ==
    /\ Range(d.timeDimension) \cup Range(d.geoDimension) \cup Range(d.categoricalDimension)
           = Range(d.dimensions)
    /\ Range(d.geoDimension) \subseteq Range(d.categoricalDimension)
    /\ Range(d.timeDimension) \cap Range(d.geoDimension) = {}
    /\ Range(d.timeDimension) \cap Range(d.categoricalDimension) = {}
    /\ KeepsOrderOf(d.timeDimension, d.dimensions)
    /\ KeepsOrderOf(d.geoDimension, d.dimensions)
    /\ KeepsOrderOf(d.categoricalDimension, d.dimensions)

\* C23: after the initial classification and after every reordering, the time,
\* geo and categorical lists together hold exactly the dimensions, the geo
\* list is within the categorical list, the time list is disjoint from both,
\* and each list keeps the relative order of the dimensions.
C23_ClassificationFits ==
    /\ ClassificationFits(agg_def)
    /\ pc \in {"reordered", "reordered_twice"} => ClassificationFits(reordered)

C23_Witness ==
    /\ pc = "reordered"
    /\ reordered.dimensions # agg_def.dimensions
    /\ Len(reordered.timeDimension) = 1
    /\ Len(reordered.geoDimension) = 2
    /\ reordered.geoDimension # agg_def.geoDimension
    /\ reordered.categoricalDimension = reordered.geoDimension

(***************************************************************************)
(* The location contract.                                                  *)
(***************************************************************************)
\* C24: the request ends in LocationRequired only when the definition's
\* filters hold a location placeholder token and no caller location was
\* supplied.
C24_LocationRequiredOnlyForPlaceholders ==
    outcome.kind = "locationRequired"
    => /\ HasLocationPlaceholder(agg_def.preAggregationFilters
                                 \o agg_def.postAggregationFilters)
       /\ ~LocationEnabled(user_location)

\* C25: when the engine was called for a request that carries a caller
\* location, the text handed to the engine holds no location placeholder
\* token, and the engine was called once.
C25_NoPlaceholderReachesEngine ==
    (engine_calls > 0 /\ LocationEnabled(user_location))
    => /\ ~HasLocationPlaceholder(engine_sql)
       /\ engine_calls = 1

(***************************************************************************)
(* The high-cardinality flag.                                              *)
(***************************************************************************)
\* the definition has a non-time dimension, and every non-time dimension is
\* known to have more distinct values than the threshold
KnownHighCardinality ==
    LET c == classify_dimensions(agg_def.dimensions)
    IN  /\ Len(c.cat) > 0
        /\ \A i \in 1..Len(c.cat) : /\ c.cat[i] \in DOMAIN dimension_stats
                                    /\ dimension_stats[c.cat[i]] > CARDINALITY_THRESHOLD

ChartsOfLowCardinality ==
    {"line_chart", "stacked_area_chart", "stacked_area_chart_100",
     "grouped_bar_chart", "stacked_bar_chart", "stacked_bar_chart_100"}

\* C26: under high cardinality none of the line, stacked area, grouped bar
\* and stacked bar charts is available, nor treemap when the definition has
\* exactly two categorical dimensions, and the ideal chart is none of these.
C26_HighCardinalityRestricts ==
    (pc = "classified" /\ KnownHighCardinality)
    => LET excluded ==
               ChartsOfLowCardinality
               \cup (IF Len(classify_dimensions(agg_def.dimensions).cat) = 2
                     THEN {"treemap"} ELSE {})
       IN  /\ Range(viz.available) \cap excluded = {}
           /\ viz.ideal \notin excluded

\* C27: in a call that computes it, the flag of
\* all_dimensions_exceed_cardinality is true exactly when the definition has a
\* non-time dimension and every non-time dimension is known to have more
\* distinct values than the threshold.
C27_FlagIffAllKnownHigh ==
    (/\ pc = "classified"
     /\ dataset_length # 1
     /\ agg_def.response_type # "text"
     /\ Len(agg_def.dimensions) + Len(agg_def.measures) > 0)
    => (all_dimensions_exceed_cardinality(agg_def.dimensions, dimension_stats,
                                          CARDINALITY_THRESHOLD)
        <=> KnownHighCardinality)

(***************************************************************************)
(* C28: the statistics of the dimensions.                                  *)
(***************************************************************************)
DimsOf(definition) == {definition.dimensions[i] : i \in 1..Len(definition.dimensions)}

\* the distinct values of d over the rows in R
DistinctValues(R, d) == {r[d] : r \in R}

\* the rows that agree with row r on every column in others
AgreeingRows(r, others) == {q \in dataset : \A c \in others : q[c] = r[c]}

\* the numbers of distinct d values of the groups of rows that agree on all
\* other dimensions
PerGroupCounts(d) ==
    {Cardinality(DistinctValues(AgreeingRows(r, DimsOf(agg_def) \ {d}), d)) : r \in dataset}

StatsAsStated(d) ==
    LET s == dimension_stats[d]
    IN  /\ s.total_unique = Cardinality(DistinctValues(dataset, d))
        /\ Len(agg_def.dimensions) = 1 =>
              /\ s.min_per_group = s.total_unique
              /\ s.max_per_group = s.total_unique
              /\ s.std_per_group = 0
        /\ Len(agg_def.dimensions) >= 2 =>
              /\ s.min_per_group \in PerGroupCounts(d)
              /\ s.max_per_group \in PerGroupCounts(d)
              /\ \A x \in PerGroupCounts(d) : s.min_per_group <= x /\ x <= s.max_per_group
              /\ 1 <= s.min_per_group
              /\ s.min_per_group <= s.max_per_group
              /\ s.max_per_group <= s.total_unique

\* C28: every call of calculate_dimension_cardinality_stats returns; the map is
\* empty for zero rows or zero dimensions, and otherwise holds, for each
\* dimension present in the rows, total_unique and the per-group minimum and
\* maximum as stated, with 1 <= min_per_group <= max_per_group <= total_unique
\* (one dimension: min = max = total_unique and no spread).
C28_CardinalityStats ==
    pc \in {"stats_done", "stats_raised"}
    => /\ pc = "stats_done"
       /\ IF dataset = {} \/ Len(agg_def.dimensions) = 0
          THEN DOMAIN dimension_stats = {}
          ELSE \A d \in DimsOf(agg_def) \cap ColumnsOf(dataset) :
                  d \in DOMAIN dimension_stats /\ StatsAsStated(d)

\* the same for the calls that return
StatsOfReturningCalls ==
    pc = "stats_done"
    => IF dataset = {} \/ Len(agg_def.dimensions) = 0
       THEN DOMAIN dimension_stats = {}
       ELSE /\ DOMAIN dimension_stats = DimsOf(agg_def) \cap ColumnsOf(dataset)
            /\ \A d \in DOMAIN dimension_stats : StatsAsStated(d)

(***************************************************************************)
(* C30: the classifier of main.py.                                         *)
(***************************************************************************)
\* C30: the ideal chart type returned by get_chart_options of main.py is a
\* member of the available list it returns, for every definition and every
\* statistics, definitions with more than two dimensions included.
C30_IdealAmongAvailable ==
    pc = "charted" => viz.ideal \in Range(viz.available)

\* the same for definitions with at most one time dimension
IdealAmongAvailableOneTime ==
    (pc = "charted" /\ Len(agg_def.timeDimension) <= 1)
    => viz.ideal \in Range(viz.available)

\* the available list holds no name twice
AvailableDeduplicated ==
    pc = "charted"
    => \A i, j \in 1..Len(viz.available) : i # j => viz.available[i] # viz.available[j]

(***************************************************************************)
(* C29: the database call and the event loop.                              *)
(***************************************************************************)
\* request r can take its next step in the current state
CanProgress(r) ==
    \/ request_pc[r] = "arrived" /\ loop_thread = NoRequest
    \/ request_pc[r] \in {"handling", "in_db_call", "analysing"} /\ loop_thread = r

\* C29: while a request is inside the database call, the thread of the event
\* loop is not the one running that call, and every other request that has
\* arrived and not been answered can make progress.
C29_DbCallOffTheLoop ==
    \A r1, r2 \in Requests :
        (/\ r1 # r2
         /\ request_pc[r1] = "in_db_call"
         /\ request_pc[r2] \in {"arrived", "handling", "analysing"})
        => loop_thread # r1 /\ CanProgress(r2)

\* what the code gives instead: during a database call no other request is
\* being handled, and none can start
LoopHeldDuringDbCall ==
    \A r1, r2 \in Requests :
        (r1 # r2 /\ request_pc[r1] = "in_db_call")
        => /\ loop_thread = r1
           /\ request_pc[r2] \in {"new", "arrived", "responded"}
           /\ ~CanProgress(r2) \/ request_pc[r2] = "new"

CanProgressIsEnabled ==
    \A r \in Requests :
        CanProgress(r) <=> ENABLED (StartHandling(r) \/ EnterDbCall(r)
                                     \/ DbCallReturns(r) \/ Respond(r))

====
